---- MODULE Spec2Model ----
(***************************************************************************)
(* Submission intake of judge-api: src/routes/api/submissions.ts.          *)
(*                                                                         *)
(* GET /submissions lists the Submission Store; POST /submissions creates  *)
(* a Submission record, builds a Job from the request, hands it to         *)
(* queueJob and answers {id, accepted, callbackurl}.  Submissions (the     *)
(* store) and queueJob (the queue client) live in ../../db/models and      *)
(* ../../rabbitmq/jobqueue; their behaviour is taken from the              *)
(* specification's description of the two capabilities.                    *)
(*                                                                         *)
(* Every promise callback is one action, so callbacks of concurrent        *)
(* requests interleave as they do on the Node event loop.                  *)
(***************************************************************************)
EXTENDS Integers, Sequences, FiniteSets, TLC

\* ------------------------------------------------------------------ bounds
\* number of POST /submissions requests that arrive in one behaviour
MaxReqs == 2
\* number of times the seeding script is run in one behaviour
MaxSeedRuns == 2
\* longest testcases array a request carries
MaxTests == 2

\* ------------------------------------------------------------ input sets
\* request.source values
Sources == {"s1", "s2"}
\* request.callbackurl values
CallbackUrls == {"http://cb/x", "http://cb/y"}
\* request.lang values: one seeded slug and one unknown language
ReqLangs == {"cpp", "ruby"}
\* the k-th {input, output} pair of locations
TestPair(k) == [input |-> <<"in", k>>, output |-> <<"out", k>>]

\* the testcases array of the first k pairs
TestArray(k) == [j \in 1..k |-> TestPair(j)]

\* the testcases arrays of at most n pairs, the empty array included
TestSeqs(n) == {TestArray(k) : k \in 0..n}

\* every body the type SubmissionRequestBody admits over the input sets
AllBodies ==
  [source : Sources, lang : ReqLangs, testcases : TestSeqs(MaxTests),
   getstdout : BOOLEAN, callbackurl : CallbackUrls]

\* the scenario request of the specification
BaseBody ==
  [source |-> "s1", lang |-> "cpp",
   testcases |-> TestArray(2),
   getstdout |-> TRUE, callbackurl |-> "http://cb/x"]

\* the fields in which two bodies differ
Diff(a, b) == {f \in DOMAIN a : a[f] # b[f]}

\* the request bodies that arrive: the scenario request and every body that
\* differs from it in one field
SubmissionRequestBody == {b \in AllBodies : Cardinality(Diff(b, BaseBody)) <= 1}

\* the rows bulkCreate seeds the language registry with
LangSeed ==
  { [lang_slug |-> "py2",     lang_name |-> "Python", lang_version |-> "2.7"],
    [lang_slug |-> "java8",   lang_name |-> "Java",   lang_version |-> "1.8"],
    [lang_slug |-> "nodejs6", lang_name |-> "NodeJS", lang_version |-> "6"],
    [lang_slug |-> "cpp",     lang_name |-> "C++",    lang_version |-> "11"],
    [lang_slug |-> "c",       lang_name |-> "C",      lang_version |-> "6"] }

VARIABLES
  reqs,        \* bodies of the POST requests received, in arrival order
  pc,          \* per request: "creating" | "fulfilled" | "rejected" | "done"
  createCalls, \* per request: number of Submissions.create calls made for it
  attrs,       \* per request: the attributes handed to Submissions.create
  sub,         \* per request: <<record>> the create promise resolved with, else <<>>
  err,         \* per request: reason of the rejection the catch handler receives
  resps,       \* per request: the responses written to res, in order
  store,       \* the submissions table, in insertion order
  langs,       \* the language registry
  jobs,        \* per request: the queueJob calls made for it, Job and outcome
  clock,       \* the wall clock read by new Date()
  gets,        \* <<response>> of the latest GET /submissions answered, else <<>>
  seedpc,      \* the seeding chain: "db.sync" | "Langs.sync" | "bulkCreate" | "finally" | "done"
  seedErr,     \* the step whose failure rejected the seeding chain, else "none"
  bulkCalls,   \* number of Langs.bulkCreate calls of this seeding run
  closeCalls,  \* number of db.close calls of this seeding run
  closeThrew,  \* db.close threw in this seeding run
  seedRuns     \* number of seeding runs started

\* the state of the two request handlers
intakevars == <<reqs, pc, createCalls, attrs, sub, err, resps, store, jobs, clock, gets>>

\* the state of the seeding script
seedvars == <<seedpc, seedErr, bulkCalls, closeCalls, closeThrew, seedRuns>>

vars == <<reqs, pc, createCalls, attrs, sub, err, resps, store, langs, jobs, clock, gets,
          seedpc, seedErr, bulkCalls, closeCalls, closeThrew, seedRuns>>

\* ---------------------------------------------------------------- helpers
Requests == 1..Len(reqs)

Slugs == {l.lang_slug : l \in langs}

\* CreateAttrs with the request's lang replaced by a default language
CreateAttrs_DefaultLang(body, now) == [lang |-> "cpp", start_time |-> now]

\* the <SubmissionAttributes> literal of route.post
CreateAttrs(body, now) == [lang |-> body.lang, start_time |-> now]

\* SubmissionJob with the id of the table's latest row instead of this
\* request's record
SubmissionJob_LatestId(submission, body) ==
  [id |-> Len(store), source |-> body.source,
   testcases |-> body.testcases, getstdout |-> body.getstdout]

\* SubmissionJob with the number of requests received as id
SubmissionJob_ReqCount(submission, body) ==
  [id |-> Len(reqs), source |-> body.source,
   testcases |-> body.testcases, getstdout |-> body.getstdout]

\* SubmissionJob with the testcases in reverse order
SubmissionJob_Reversed(submission, body) ==
  [id |-> submission.id, source |-> body.source,
   testcases |-> [t \in 1..Len(body.testcases) |->
                    body.testcases[Len(body.testcases) + 1 - t]],
   getstdout |-> body.getstdout]

\* the <SubmissionJob> literal of route.post
SubmissionJob(submission, body) ==
  [id |-> submission.id, source |-> body.source,
   testcases |-> body.testcases, getstdout |-> body.getstdout]

\* the <SubmissionResponse> literal of route.post, sent with status 202
SubmissionResponse(submission, queued, body) ==
  [status |-> 202,
   json |-> [id |-> submission.id, accepted |-> queued, callbackurl |-> body.callbackurl]]

\* PostError sent with the status of the acceptance
PostError_Accepted(e) ==
  [status |-> 202,
   json |-> [code |-> 501, message |-> "Could not accept submission", error |-> e]]

\* the error object of route.post's catch handler, sent with status 501
PostError(e) ==
  [status |-> 501,
   json |-> [code |-> 501, message |-> "Could not accept submission", error |-> e]]

\* GetOk that sends the first row only
GetOk_FirstRow(submissions) ==
  [status |-> 200,
   json |-> IF Len(submissions) = 0 THEN <<>> ELSE <<submissions[1]>>]

\* the two answers of route.get
GetOk(submissions) == [status |-> 200, json |-> submissions]
GetError(e) ==
  [status |-> 501,
   json |-> [code |-> 501, message |-> "Could not fetch submissions", error |-> e]]

\* what a queueJob call can do: return true, return false, or throw
QueueOutcomes ==
  { [threw |-> FALSE, ret |-> TRUE], [threw |-> FALSE, ret |-> FALSE],
    [threw |-> TRUE, ret |-> FALSE] }

\* the row the store inserts for the given attributes: it assigns the id
NewRecord(a) == [id |-> Len(store) + 1, lang |-> a.lang, start_time |-> a.start_time]

\* the store accepts a row only when its lang references a registry entry
StoreAccepts(a) == a.lang \in Slugs

\* ------------------------------------------------------------------- Init
\* the routes are served after system setup: the registry is seeded and the
\* seeding script has ended
Init ==
  /\ reqs = <<>>
  /\ pc = <<>>
  /\ createCalls = <<>>
  /\ attrs = <<>>
  /\ sub = <<>>
  /\ err = <<>>
  /\ resps = <<>>
  /\ store = <<>>
  /\ langs = LangSeed
  /\ jobs = <<>>
  /\ clock = 0
  /\ gets = <<>>
  /\ seedpc = "done"
  /\ seedErr = "none"
  /\ bulkCalls = 1
  /\ closeCalls = 1
  /\ closeThrew = FALSE
  /\ seedRuns = 1

\* ---------------------------------------------------------------- actions
\* route.post('/'): the synchronous part, which reads the clock and calls
\* Submissions.create; the router validates nothing first
Post(body) ==
  /\ UNCHANGED seedvars
  /\ Len(reqs) < MaxReqs
  /\ clock' = clock + 1
  /\ attrs' = Append(attrs, CreateAttrs(body, clock'))
  /\ reqs' = Append(reqs, body)
  /\ pc' = Append(pc, "creating")
  /\ createCalls' = Append(createCalls, 1)
  /\ sub' = Append(sub, <<>>)
  /\ err' = Append(err, "none")
  /\ resps' = Append(resps, <<>>)
  /\ jobs' = Append(jobs, <<>>)
  /\ UNCHANGED <<store, langs, gets>>

\* Submissions.create settles: the row is inserted and the promise is
\* fulfilled with it
CreateResolve(i) ==
  /\ UNCHANGED seedvars
  /\ pc[i] = "creating"
  /\ StoreAccepts(attrs[i])
  /\ store' = Append(store, NewRecord(attrs[i]))
  /\ sub' = [sub EXCEPT ![i] = <<NewRecord(attrs[i])>>]
  /\ pc' = [pc EXCEPT ![i] = "fulfilled"]
  /\ UNCHANGED <<reqs, createCalls, attrs, err, resps, langs, jobs, clock, gets>>

\* Submissions.create settles: the store is unreachable or rejects the row,
\* nothing is inserted and the promise is rejected
CreateReject(i) ==
  /\ UNCHANGED seedvars
  /\ pc[i] = "creating"
  /\ pc' = [pc EXCEPT ![i] = "rejected"]
  /\ err' = [err EXCEPT ![i] =
               IF StoreAccepts(attrs[i]) THEN "store unreachable" ELSE "constraint violation"]
  /\ UNCHANGED <<reqs, createCalls, attrs, sub, resps, store, langs, jobs, clock, gets>>

\* PostThen that answers 202 before it calls queueJob
PostThen_RespondFirst(i) ==
  /\ UNCHANGED seedvars
  /\ pc[i] = "fulfilled"
  /\ \E o \in QueueOutcomes :
       LET submission == sub[i][1]
           job == SubmissionJob(submission, reqs[i])
       IN /\ jobs' = [jobs EXCEPT ![i] = Append(@, [job |-> job, outcome |-> o])]
          /\ resps' = [resps EXCEPT ![i] =
                         Append(@, SubmissionResponse(submission, TRUE, reqs[i]))]
          /\ IF o.threw
               THEN /\ pc' = [pc EXCEPT ![i] = "rejected"]
                    /\ err' = [err EXCEPT ![i] = "queueJob threw"]
               ELSE /\ pc' = [pc EXCEPT ![i] = "done"]
                    /\ UNCHANGED err
  /\ UNCHANGED <<reqs, createCalls, attrs, sub, store, langs, clock, gets>>

\* the .then callback of route.post: build the Job, call queueJob, answer 202;
\* an exception of queueJob rejects the promise the .catch is chained on
PostThen(i) ==
  /\ UNCHANGED seedvars
  /\ pc[i] = "fulfilled"
  /\ \E o \in QueueOutcomes :
       LET submission == sub[i][1]
           job == SubmissionJob(submission, reqs[i])
       IN /\ jobs' = [jobs EXCEPT ![i] = Append(@, [job |-> job, outcome |-> o])]
          /\ IF o.threw
               THEN /\ pc' = [pc EXCEPT ![i] = "rejected"]
                    /\ err' = [err EXCEPT ![i] = "queueJob threw"]
                    /\ UNCHANGED resps
               ELSE /\ pc' = [pc EXCEPT ![i] = "done"]
                    /\ resps' = [resps EXCEPT ![i] =
                                   Append(@, SubmissionResponse(submission, o.ret, reqs[i]))]
                    /\ UNCHANGED err
  /\ UNCHANGED <<reqs, createCalls, attrs, sub, store, langs, clock, gets>>

\* PostCatch that writes to the res of the latest request, as a handler
\* keeping res in a module-level variable would
PostCatch_LatestRes(i) ==
  /\ UNCHANGED seedvars
  /\ pc[i] = "rejected"
  /\ pc' = [pc EXCEPT ![i] = "done"]
  /\ resps' = [resps EXCEPT ![Len(reqs)] = Append(@, PostError(err[i]))]
  /\ UNCHANGED <<reqs, createCalls, attrs, sub, err, store, langs, jobs, clock>>
  /\ UNCHANGED gets

\* PostCatch that deletes the request's record again when the failure came
\* after the create
PostCatch_Rollback(i) ==
  /\ UNCHANGED seedvars
  /\ pc[i] = "rejected"
  /\ pc' = [pc EXCEPT ![i] = "done"]
  /\ resps' = [resps EXCEPT ![i] = Append(@, PostError(err[i]))]
  /\ store' = IF sub[i] = <<>> THEN store
              ELSE SelectSeq(store, LAMBDA r : r.id # sub[i][1].id)
  /\ UNCHANGED <<reqs, createCalls, attrs, sub, err, langs, jobs, clock>>
  /\ UNCHANGED gets

\* the .catch callback of route.post: answer 501 with the error
PostCatch(i) ==
  /\ UNCHANGED seedvars
  /\ pc[i] = "rejected"
  /\ pc' = [pc EXCEPT ![i] = "done"]
  /\ resps' = [resps EXCEPT ![i] = Append(@, PostError(err[i]))]
  /\ UNCHANGED <<reqs, createCalls, attrs, sub, err, store, langs, jobs, clock>>
  /\ UNCHANGED gets

\* route.get('/'): findAll succeeds and the rows are sent with status 200
GetFulfilled ==
  /\ UNCHANGED seedvars
  /\ gets' = <<GetOk(store)>>
  /\ UNCHANGED <<reqs, pc, createCalls, attrs, sub, err, resps, store, langs, jobs, clock>>

\* route.get('/'): findAll fails and the error object is sent with status 501
GetRejected ==
  /\ UNCHANGED seedvars
  /\ gets' = <<GetError("store unreachable")>>
  /\ UNCHANGED <<reqs, pc, createCalls, attrs, sub, err, resps, store, langs, jobs, clock>>

\* the steps of route.post
PostNext ==
  \/ \E body \in SubmissionRequestBody : Post(body)
  \/ \E i \in Requests : CreateResolve(i)
  \/ \E i \in Requests : CreateReject(i)
  \/ \E i \in Requests : PostThen(i)
  \/ \E i \in Requests : PostCatch(i)

\* the steps of both routes
Next ==
  \/ PostNext
  \/ GetFulfilled
  \/ GetRejected

Spec == Init /\ [][Next]_vars

\* the request bodies that differ for the store: Submissions.create is handed
\* the lang of the body and nothing else of it
StoreBodies == {b \in SubmissionRequestBody : Diff(b, BaseBody) \subseteq {"lang"}}

\* the steps of both routes, with the requests that differ for the store
ListNext ==
  \/ \E body \in StoreBodies : Post(body)
  \/ \E i \in Requests : CreateResolve(i)
  \/ \E i \in Requests : CreateReject(i)
  \/ \E i \in Requests : PostThen(i)
  \/ \E i \in Requests : PostCatch(i)
  \/ GetFulfilled
  \/ GetRejected

\* the listing and the table under POST and GET requests in any order
ListSpec == Init /\ [][ListNext]_vars

\* POST requests alone: a GET writes nothing but its own response, so the
\* properties of route.post are checked on the behaviours without GET steps
PostSpec == Init /\ [][PostNext]_vars

\* ---------------------------------------------------------- the seeding
\* The statements after `export {route}` are the setup script that seeds the
\* language registry: db.sync().then(Langs.sync({force:true}))
\* .then(Langs.bulkCreate([...])).finally(try { db.close() } catch {}).

\* a registry row that is no seed row, and a seed slug with an older version
StaleRows ==
  { [lang_slug |-> "ruby", lang_name |-> "Ruby", lang_version |-> "2.4"],
    [lang_slug |-> "cpp",  lang_name |-> "C++",  lang_version |-> "98"] }

\* what the registry can hold before the script runs
PriorRegistries == SUBSET (LangSeed \cup StaleRows)

\* the script is started on a registry with arbitrary contents
SeedInit ==
  /\ reqs = <<>>
  /\ pc = <<>>
  /\ createCalls = <<>>
  /\ attrs = <<>>
  /\ sub = <<>>
  /\ err = <<>>
  /\ resps = <<>>
  /\ store = <<>>
  /\ jobs = <<>>
  /\ clock = 0
  /\ gets = <<>>
  /\ langs \in PriorRegistries
  /\ seedpc = "db.sync"
  /\ seedErr = "none"
  /\ bulkCalls = 0
  /\ closeCalls = 0
  /\ closeThrew = FALSE
  /\ seedRuns = 1

\* db.sync(): creates the missing tables, changes no row; a rejection skips
\* both .then callbacks
DbSync ==
  /\ seedpc = "db.sync"
  /\ \E ok \in BOOLEAN :
       IF ok THEN seedpc' = "Langs.sync" /\ UNCHANGED seedErr
             ELSE seedpc' = "finally" /\ seedErr' = "db.sync"
  /\ UNCHANGED <<langs, bulkCalls, closeCalls, closeThrew, seedRuns>>
  /\ UNCHANGED intakevars

\* Langs.sync without force: the table is created if missing and keeps its rows
LangsSync_NoForce ==
  /\ seedpc = "Langs.sync"
  /\ \E ok \in BOOLEAN :
       IF ok THEN seedpc' = "bulkCreate" /\ UNCHANGED seedErr
             ELSE seedpc' = "finally" /\ seedErr' = "Langs.sync"
  /\ UNCHANGED <<langs, bulkCalls, closeCalls, closeThrew, seedRuns>>
  /\ UNCHANGED intakevars

\* Langs.sync({force:true}): the table is dropped and created again, empty;
\* a failure leaves it as it was or dropped
LangsSync ==
  /\ seedpc = "Langs.sync"
  /\ \/ /\ seedpc' = "bulkCreate"
        /\ langs' = {}
        /\ UNCHANGED seedErr
     \/ /\ seedpc' = "finally"
        /\ seedErr' = "Langs.sync"
        /\ langs' \in {langs, {}}
  /\ UNCHANGED <<bulkCalls, closeCalls, closeThrew, seedRuns>>
  /\ UNCHANGED intakevars

\* Langs.bulkCreate([...]): one insert of the five rows; it fails as a whole
\* when a slug is already in the table or the database is unreachable
BulkCreate ==
  /\ seedpc = "bulkCreate"
  /\ bulkCalls' = bulkCalls + 1
  /\ seedpc' = "finally"
  /\ \/ /\ Slugs \cap {l.lang_slug : l \in LangSeed} = {}
        /\ langs' = langs \cup LangSeed
        /\ UNCHANGED seedErr
     \/ /\ seedErr' = "bulkCreate"
        /\ UNCHANGED langs
  /\ UNCHANGED <<closeCalls, closeThrew, seedRuns>>
  /\ UNCHANGED intakevars

\* SeedFinally chained with .then: db.close runs only when nothing failed
SeedFinally_OnlyOnSuccess ==
  /\ seedpc = "finally"
  /\ seedpc' = "done"
  /\ IF seedErr = "none"
       THEN /\ closeCalls' = closeCalls + 1
            /\ \E threw \in BOOLEAN : closeThrew' = threw
       ELSE UNCHANGED <<closeCalls, closeThrew>>
  /\ UNCHANGED <<langs, seedErr, bulkCalls, seedRuns>>
  /\ UNCHANGED intakevars

\* the .finally callback: db.close() inside try/catch, on every outcome of
\* the chain; the chain keeps the outcome it had
SeedFinally ==
  /\ seedpc = "finally"
  /\ seedpc' = "done"
  /\ closeCalls' = closeCalls + 1
  /\ \E threw \in BOOLEAN : closeThrew' = threw
  /\ UNCHANGED <<langs, seedErr, bulkCalls, seedRuns>>
  /\ UNCHANGED intakevars

\* the script is run again, on whatever the registry holds now
SeedRerun ==
  /\ seedpc = "done"
  /\ seedRuns < MaxSeedRuns
  /\ seedRuns' = seedRuns + 1
  /\ seedpc' = "db.sync"
  /\ seedErr' = "none"
  /\ bulkCalls' = 0
  /\ closeCalls' = 0
  /\ closeThrew' = FALSE
  /\ UNCHANGED langs
  /\ UNCHANGED intakevars

SeedNext ==
  \/ DbSync
  \/ LangsSync
  \/ BulkCreate
  \/ SeedFinally
  \/ SeedRerun

SeedSpec == SeedInit /\ [][SeedNext]_vars

\* The event loop runs every callback whose promise has settled; nothing
\* makes the store settle a create, and the handler sets no timer for it.
FairSpec ==
  /\ PostSpec
  /\ \A i \in 1..MaxReqs :
       /\ WF_vars(i \in Requests /\ PostThen(i))
       /\ WF_vars(i \in Requests /\ PostCatch(i))

\* ------------------------------------------------------ claim vocabulary
\* the create promise of request i was fulfilled
CreateSucceeded(i) == sub[i] # <<>>

\* the create promise of request i was rejected
CreateFailed(i) == err[i] \in {"store unreachable", "constraint violation"}

\* the record request i created
Created(i) == sub[i][1]

\* the rows of the table whose id is n
RowsWithId(n) == {k \in 1..Len(store) : store[k].id = n}

\* a response is the structured error object sent with a non-2xx status
IsStructuredError(r) ==
  /\ r.status \notin 200..299
  /\ DOMAIN r.json = {"code", "message", "error"}

\* request i has been answered with exactly the response r
AnsweredWith(i, r) == resps[i] = <<r>>

\* the request is malformed: its testcases array is empty
Malformed(body) == Len(body.testcases) = 0

\* the slugs of the seeded registry
SeedSlugs == {l.lang_slug : l \in LangSeed}

\* ---------------------------------------------------------------- claims
\* C1: a POST whose Submissions.create succeeded added exactly one record,
\* made at most one queueJob call, and every Job it passed to queueJob
\* carries the id of the record this request created.
C1_OneRecordOneJobSameId ==
  /\ Len(store) = Cardinality({i \in Requests : CreateSucceeded(i)})
  /\ \A i \in Requests :
       /\ CreateSucceeded(i) =>
            /\ Cardinality(RowsWithId(Created(i).id)) = 1
            /\ \A k \in RowsWithId(Created(i).id) : store[k] = Created(i)
            /\ \A j \in Requests : (j # i /\ CreateSucceeded(j)) => Created(j).id # Created(i).id
       /\ Len(jobs[i]) <= 1
       /\ \A k \in 1..Len(jobs[i]) :
            CreateSucceeded(i) /\ jobs[i][k].job.id = Created(i).id

\* C1 witness: two requests both created a record and both enqueued a Job,
\* the later arrival having created its record first
C1_Witness ==
  /\ Len(reqs) >= 2
  /\ CreateSucceeded(1) /\ CreateSucceeded(2)
  /\ Created(2).id < Created(1).id
  /\ Len(jobs[1]) = 1 /\ Len(jobs[2]) = 1

\* C2: when Submissions.create failed for a request, queueJob is never called
\* for it, create was called once only, and the answer, once written, is the
\* one structured error {code, message, error} with a non-2xx status.
C2_CreateFailureNoJob ==
  \A i \in Requests :
    CreateFailed(i) =>
      /\ jobs[i] = <<>>
      /\ createCalls[i] = 1
      /\ ~CreateSucceeded(i)
      /\ pc[i] \in {"rejected", "done"}
      /\ pc[i] = "rejected" => resps[i] = <<>>
      /\ pc[i] = "done" => /\ Len(resps[i]) = 1
                           /\ IsStructuredError(resps[i][1])

\* C2 witness: a request with a known language whose create failed has been answered
C2_Witness ==
  \E i \in Requests :
    /\ CreateFailed(i) /\ pc[i] = "done"
    /\ reqs[i].lang \in SeedSlugs

\* C3 (as claimed): after a successful create, a queueJob call that returned
\* false or threw still ends in the answer 202 with accepted = false and the
\* id of the record this request persisted, which stays in the table.
C3_QueueFailureStill202 ==
  \A i \in Requests :
    (/\ pc[i] = "done"
     /\ CreateSucceeded(i)
     /\ \E k \in 1..Len(jobs[i]) : jobs[i][k].outcome.threw \/ ~jobs[i][k].outcome.ret)
    => /\ Len(resps[i]) = 1
       /\ resps[i][1].status = 202
       /\ resps[i][1].json.accepted = FALSE
       /\ resps[i][1].json.id = Created(i).id
       /\ \E k \in 1..Len(store) : store[k] = Created(i)

\* C4: every Job passed to queueJob carries the id of a record that is
\* already in the table.
C4_NoOrphanJob ==
  \A i \in Requests : \A k \in 1..Len(jobs[i]) :
    \E r \in 1..Len(store) : store[r].id = jobs[i][k].job.id

\* C4 witness: a Job was passed to queueJob while another request's create
\* had failed
C4_Witness ==
  \E i, j \in Requests :
    /\ Len(jobs[i]) = 1
    /\ CreateFailed(j)

\* C5 (as claimed): every answered request whose create succeeded was answered
\* 202 with {id, accepted, callbackurl}: the created id, the boolean queueJob
\* returned, the request's callbackurl.
C5_ResponseShape ==
  \A i \in Requests :
    (pc[i] = "done" /\ CreateSucceeded(i)) =>
      /\ Len(resps[i]) = 1
      /\ Len(jobs[i]) = 1
      /\ resps[i][1].status = 202
      /\ resps[i][1].json = [id |-> Created(i).id,
                             accepted |-> jobs[i][1].outcome.ret,
                             callbackurl |-> reqs[i].callbackurl]

\* C6 (as claimed): once a request is answered with accepted = true, its
\* callbackurl is a field of the record it created or of the Job it enqueued.
C6_CallbackUrlSurvives ==
  \A i \in Requests :
    (/\ Len(resps[i]) = 1
     /\ resps[i][1].status = 202
     /\ resps[i][1].json.accepted)
    => \/ /\ "callbackurl" \in DOMAIN Created(i)
          /\ Created(i)["callbackurl"] = reqs[i].callbackurl
       \/ \E k \in 1..Len(jobs[i]) :
            /\ "callbackurl" \in DOMAIN jobs[i][k].job
            /\ jobs[i][k].job["callbackurl"] = reqs[i].callbackurl

\* C7 (as claimed): a malformed request never creates a record, never reaches
\* queueJob, and is answered with a client error.
C7_MalformedRejected ==
  \A i \in Requests :
    Malformed(reqs[i]) =>
      /\ ~CreateSucceeded(i)
      /\ jobs[i] = <<>>
      /\ \A k \in 1..Len(resps[i]) : resps[i][k].status \in 400..499

C9_JobFieldsVerbatim ==
  \A i \in Requests : \A k \in 1..Len(jobs[i]) :
    LET job == jobs[i][k].job
    IN /\ job.source = reqs[i].source
       /\ job.getstdout = reqs[i].getstdout
       /\ Len(job.testcases) = Len(reqs[i].testcases)
       /\ \A t \in 1..Len(job.testcases) : job.testcases[t] = reqs[i].testcases[t]

\* C9 witness: two requests that differ in source or getstdout both passed a
\* Job to queueJob, one of them with two testcases
C9_Witness ==
  \E i, j \in Requests :
    /\ Len(jobs[i]) = 1 /\ Len(jobs[j]) = 1
    /\ Len(reqs[i].testcases) = 2
    /\ \/ reqs[i].source # reqs[j].source
       \/ reqs[i].getstdout # reqs[j].getstdout

\* C10: a GET answers 200 with exactly the rows of the table, or a non-2xx
\* structured error, and changes neither the table nor the Jobs handed to
\* the queue.
C10_GetPassthrough ==
  [][ gets' # gets =>
        /\ Len(gets') = 1
        /\ \/ gets'[1].status = 200 /\ gets'[1].json = store
           \/ IsStructuredError(gets'[1])
        /\ store' = store
        /\ jobs' = jobs ]_vars

\* C10 witness: a GET was answered 200 with two rows
C10_Witness ==
  /\ Len(gets) = 1
  /\ gets[1].status = 200
  /\ Len(gets[1].json) = 2

\* the answer request i gets according to its own create and its own
\* queueJob call
OwnResponse(i) ==
  IF CreateSucceeded(i) /\ ~jobs[i][1].outcome.threw
    THEN SubmissionResponse(Created(i), jobs[i][1].outcome.ret, reqs[i])
    ELSE PostError(IF CreateSucceeded(i) THEN "queueJob threw" ELSE err[i])

\* C15: a step of one request, a store or queue failure included, leaves the
\* record, the Job, the pending error and the response of every other
\* request as they were, a failing step inserts no row, and every request is
\* answered with the response its own create and its own queueJob call give.
C15_FailuresArePerRequest ==
  /\ [](\A i \in Requests :
          pc[i] = "done" =>
            /\ CreateSucceeded(i) => Len(jobs[i]) = 1
            /\ resps[i] = <<OwnResponse(i)>>)
  /\ [][\A i \in Requests :
          pc'[i] # pc[i] =>
            /\ pc'[i] = "rejected" => store' = store
            /\ \A j \in Requests \ {i} :
                 /\ pc'[j] = pc[j]
                 /\ sub'[j] = sub[j]
                 /\ jobs'[j] = jobs[j]
                 /\ err'[j] = err[j]
                 /\ resps'[j] = resps[j]]_vars

\* C15 witness: the second request created its record first and was answered
\* 202 accepted, while the first request's queueJob threw and it was answered 501
C15_Witness ==
  /\ Len(reqs) >= 2
  /\ pc[1] = "done" /\ pc[2] = "done"
  /\ CreateSucceeded(1) /\ CreateSucceeded(2)
  /\ Created(2).id < Created(1).id
  /\ jobs[1][1].outcome.threw
  /\ resps[1][1].status = 501
  /\ resps[2][1].status = 202 /\ resps[2][1].json.accepted

C17_StoreOnlyGrows ==
  /\ [](\A k, l \in 1..Len(store) : store[k].id = store[l].id => k = l)
  /\ [][/\ Len(store') >= Len(store)
        /\ \A k \in 1..Len(store) : store'[k] = store[k]]_vars

\* C17 witness: the table holds two rows, a GET has been answered, and one of
\* the requests failed after its record was created
C17_Witness ==
  /\ Len(store) = 2
  /\ gets # <<>>
  /\ \E i \in Requests : pc[i] = "done" /\ CreateSucceeded(i) /\ resps[i][1].status = 501

\* C18 (as claimed): every POST request received is eventually answered, also
\* when the store never settles its create.
C18_EveryPostAnswered ==
  \A i \in 1..MaxReqs :
    [](i <= Len(reqs) => <>(i <= Len(reqs) /\ Len(resps[i]) >= 1))

\* the three steps of this seeding run all succeeded
SeedSucceeded == seedpc \in {"finally", "done"} /\ seedErr = "none"

\* C19: whenever db.sync, Langs.sync({force:true}) and bulkCreate of a run all
\* succeeded, the registry holds exactly the five seed rows, whatever it held
\* before and whether it is the first run or a later one.
C19_SeedIdempotent == SeedSucceeded => langs = LangSeed

\* C19 witness: the second run succeeded
C19_Witness == SeedSucceeded /\ seedRuns = 2 /\ seedpc = "done"

\* C20: db.close is called exactly once per run, in the last step and on
\* every outcome of the chain; the chain ends with the outcome its three
\* steps gave, also when db.close threw; bulkCreate is not called when
\* db.sync or Langs.sync failed, and at most once otherwise.
C20_CloseOnceAtEnd ==
  /\ seedpc = "done" => closeCalls = 1
  /\ seedErr \in {"none", "db.sync", "Langs.sync", "bulkCreate"}
  /\ seedpc # "done" => closeCalls = 0
  /\ seedErr \in {"db.sync", "Langs.sync"} => bulkCalls = 0
  /\ bulkCalls <= 1

\* C20 witness: Langs.sync failed, db.close was called and threw
C20_Witness == seedpc = "done" /\ seedErr = "Langs.sync" /\ closeThrew

TypeOK ==
  /\ Len(pc) = Len(reqs)
  /\ \A i \in Requests : pc[i] \in {"creating", "fulfilled", "rejected", "done"}

====
